---------------------------- MODULE Spec2Model ----------------------------
(***************************************************************************)
(* Routers of routellm/routers/routers.py: the threshold decision of       *)
(* Router.route, the NO_PARALLEL class flag, and the estimators random,    *)
(* causal_llm, bert, matrix_factorization and sw_ranking.                  *)
(*                                                                         *)
(* Numbers.  Python floats are modelled by exact arithmetic:               *)
(*   - a probability or threshold is a fraction <<n, d>> with d > 0;       *)
(*   - a cosine similarity is an integer count of halves (2 is 1.0);       *)
(*   - a sample weight is an integer count of thousandths (1000 is 1.0);   *)
(*   - an Elo rating r is the fraction q with r = 1000 + 400*log10(q), so  *)
(*     that 10 ** ((r1 - r2) / 400) is the fraction q1 / q2, exactly;      *)
(*   - a BERT logit is an integer count of ln 2, so that exp is a power    *)
(*     of two.                                                             *)
(* Rounding of IEEE doubles is outside the model.                          *)
(***************************************************************************)
EXTENDS Integers, Sequences, FiniteSets, TLC

(***************************************************************************)
(* Bounds of the model.                                                    *)
(***************************************************************************)
\* calls (route or calculate_strong_win_rate) started in one behaviour
MaxCalls == 2
\* longest similarity vector given to get_weightings on its own
MaxSims == 3

(***************************************************************************)
(* Arithmetic on fractions.                                                *)
(***************************************************************************)
RECURSIVE GCD(_, _)
GCD(a, b) == IF b = 0 THEN a ELSE GCD(b, a % b)

Abs(x) == IF x < 0 THEN 0 - x ELSE x

Reduce(q) ==
    LET g == GCD(Abs(q[1]), Abs(q[2]))
    IN  IF g = 0 THEN q ELSE <<q[1] \div g, q[2] \div g>>

RAdd(a, b) == Reduce(<<a[1] * b[2] + b[1] * a[2], a[2] * b[2]>>)
RSub(a, b) == Reduce(<<a[1] * b[2] - b[1] * a[2], a[2] * b[2]>>)
\* a / b for b # 0, cancelling across before multiplying
RDiv(a, b) ==
    LET g == GCD(Abs(a[1]), Abs(b[1]))
        h == GCD(a[2], b[2])
        n == (a[1] \div g) * (b[2] \div h)
        d == (a[2] \div h) * (b[1] \div g)
    IN  IF d < 0 THEN <<0 - n, 0 - d>> ELSE <<n, d>>
RLess(a, b) == a[1] * b[2] < b[1] * a[2]
RGeq(a, b) == a[1] * b[2] >= b[1] * a[2]
REq(a, b) == a[1] * b[2] = b[1] * a[2]
One == <<1, 1>>
Zero == <<0, 1>>
Half == <<1, 2>>
InUnit(q) == RGeq(q, Zero) /\ RGeq(One, q)

RECURSIVE Pow(_, _)
Pow(b, k) == IF k = 0 THEN 1 ELSE b * Pow(b, k - 1)

RECURSIVE SumSeq(_)
SumSeq(s) == IF s = <<>> THEN 0 ELSE Head(s) + SumSeq(Tail(s))

RECURSIVE MaxSeq(_)
MaxSeq(s) ==
    IF Len(s) = 1 THEN s[1]
    ELSE LET m == MaxSeq(Tail(s)) IN IF s[1] > m THEN s[1] ELSE m


RECURSIVE ISqrt(_, _)
\* the largest r with r * r <= n, counting up from r
ISqrt(n, r) == IF (r + 1) * (r + 1) > n THEN r ELSE ISqrt(n, r + 1)

(***************************************************************************)
(* Classes and the NO_PARALLEL class attribute.                            *)
(***************************************************************************)
Base == "Router"
Variants ==
    {"CausalLLMRouter", "BERTRouter", "SWRankingRouter",
     "MatrixFactorizationRouter", "RandomRouter"}
Classes == {Base} \cup Variants

\* ROUTER_CLS: registry name -> class
ROUTER_CLS ==
    [random |-> "RandomRouter",
     matrix_factorization |-> "MatrixFactorizationRouter",
     causal_llm |-> "CausalLLMRouter",
     bert |-> "BERTRouter",
     sw_ranking |-> "SWRankingRouter"]

\* the class bodies as written: only Router defines NO_PARALLEL itself
ClassBodies == [c \in Classes |-> IF c = Base THEN "False" ELSE "unset"]

\* a decorator that sets the flag on the base class instead of on cls
no_parallel_on_base(cls, attrs) == [attrs EXCEPT ![Base] = "True"]

\* no_parallel: cls.NO_PARALLEL = True, on the decorated class only
no_parallel(cls, attrs) == [attrs EXCEPT ![cls] = "True"]

\* the classes carrying @no_parallel, in source order
Decorated ==
    <<"CausalLLMRouter", "BERTRouter", "MatrixFactorizationRouter",
      "RandomRouter">>

RECURSIVE Decorate(_, _)
Decorate(attrs, todo) ==
    IF todo = <<>> THEN attrs
    ELSE Decorate(no_parallel(Head(todo), attrs), Tail(todo))

\* the class dictionaries once the module is imported
ModuleLoaded == Decorate(ClassBodies, Decorated)

\* attribute lookup cls.NO_PARALLEL: the class's own value, else Router's
NoParallelOf(attrs, cls) ==
    IF attrs[cls] # "unset" THEN attrs[cls] ELSE attrs[Base]

(***************************************************************************)
(* Router.route: the threshold decision.                                   *)
(***************************************************************************)
STRONG == "strong"
WEAK == "weak"

\* a decision with a strict comparison
RouteDecisionStrict(win_rate, threshold) ==
    IF RLess(threshold, win_rate) THEN STRONG ELSE WEAK

\* if calculate_strong_win_rate(prompt) >= threshold: strong, else weak
RouteDecision(win_rate, threshold) ==
    IF RGeq(win_rate, threshold) THEN STRONG ELSE WEAK

(***************************************************************************)
(* SWRankingRouter: similarities and weightings.                           *)
(***************************************************************************)
NaN == 0 - 1

Dot(a, b) == SumSeq([i \in 1..Len(a) |-> a[i] * b[i]])
Norm(v) == ISqrt(Dot(v, v), 0)

\* cosine of every stored row with the prompt embedding, in halves; the
\* division is exact for the axis-parallel embeddings of this model
Similarities(arena_conv_embedding, prompt_emb) ==
    [i \in 1..Len(arena_conv_embedding) |->
        (2 * Dot(arena_conv_embedding[i], prompt_emb))
            \div (Norm(arena_conv_embedding[i]) * Norm(prompt_emb))]

\* 10 * 10 ** (h / 2) in thousandths, for h in -4..4
TenPow10(h) ==
    LET odd == h % 2 = 1
        e == ((IF odd THEN h - 1 ELSE h) \div 2) + 1
        m == IF odd THEN 3162 ELSE 1000
    IN  IF e >= 0 THEN m * Pow(10, e) ELSE m \div Pow(10, 0 - e)

\* 10 * 10 ** (s / max_sim) for one entry; numpy gives 0/0 = nan and
\* s/0 = -inf for s < 0, and 10 ** -inf = 0
Weighting(s, max_sim) ==
    IF max_sim = 0 THEN (IF s = 0 THEN NaN ELSE 0)
    ELSE TenPow10((2 * s) \div max_sim)

get_weightings(similarities) ==
    LET max_sim == MaxSeq(similarities)
    IN  [i \in 1..Len(similarities) |-> Weighting(similarities[i], max_sim)]

(***************************************************************************)
(* sw_utils: the weighted rating fit and the tier assignment.              *)
(***************************************************************************)
Participants(df) ==
    {df[i].model_a : i \in 1..Len(df)} \cup {df[i].model_b : i \in 1..Len(df)}

\* pd.concat([model_a, model_b]): order of first appearance
Column(df) ==
    [i \in 1..(2 * Len(df)) |->
        IF i <= Len(df) THEN df[i].model_a ELSE df[i - Len(df)].model_b]
Pos(df, p) ==
    CHOOSE i \in 1..(2 * Len(df)) :
        Column(df)[i] = p /\ \A j \in 1..(i - 1) : Column(df)[j] # p

\* twice the credit row i gives p: a win 2, a tie 1 to each side
RowCredit(row, p) ==
    IF row.model_a = row.model_b THEN 0
    ELSE IF row.winner = "tie" THEN (IF p \in {row.model_a, row.model_b} THEN 1 ELSE 0)
    ELSE IF row.winner = "model_a" /\ p = row.model_a THEN 2
    ELSE IF row.winner = "model_b" /\ p = row.model_b THEN 2
    ELSE 0

\* the weighted credit of p, with a prior of one unit-weight tie
Credit(df, sample_weight, p) ==
    1000 + SumSeq([i \in 1..Len(df) |-> sample_weight[i] * RowCredit(df[i], p)])

UnitWeights(df) == [i \in 1..Len(df) |-> 1000]

\* ratings of the participants of df relative to the anchor, the first
\* participant, whose rating is the baseline 1000 (the fraction 1).  Between
\* two participants a and b the weighted Bradley-Terry likelihood is greatest
\* where 10 ** ((r(a) - r(b)) / 400) = credit(a) / credit(b), a tie counting
\* half a win for each side; the prior keeps a participant without wins or
\* without losses at a finite rating.  Every dataset of this model has at most
\* two participants (two models, then at most two tiers).  df is only read.
compute_elo_mle_with_tie(df, sample_weight) ==
    LET anchor == df[1].model_a
    IN  [p \in Participants(df) |->
            Reduce(<<Credit(df, sample_weight, p),
                     Credit(df, sample_weight, anchor)>>)]

\* the rank of p: participants sorted by rating, highest first, stable
Rank(df, ratings, p) ==
    Cardinality({q \in DOMAIN ratings :
        \/ RLess(ratings[p], ratings[q])
        \/ REq(ratings[p], ratings[q]) /\ Pos(df, q) < Pos(df, p)})

\* contiguous groups of as-equal-as-possible size, the remainder going to
\* the highest tiers, one each
compute_tiers(df, ratings, num_tiers) ==
    LET n == Cardinality(DOMAIN ratings)
        size == n \div num_tiers
        rem == n % num_tiers
    IN  [p \in DOMAIN ratings |->
            LET r == Rank(df, ratings, p)
            IN  IF r < rem * (size + 1) THEN r \div (size + 1)
                ELSE rem + ((r - rem * (size + 1)) \div size)]

\* arena_df["model_a"].apply(model2tier), arena_df["model_b"].apply(...)
Relabel(df, model2tier) ==
    [i \in 1..Len(df) |->
        [model_a |-> model2tier[df[i].model_a],
         model_b |-> model2tier[df[i].model_b],
         winner |-> df[i].winner]]

(***************************************************************************)
(* The win-rate formulas.                                                  *)
(***************************************************************************)
\* 10 ** ((strong_score - weak_score) / 400), on ratings held as fractions
Pow10Gap(strong_score, weak_score) == RDiv(strong_score, weak_score)

\* a formula that leaves the 1 out of the denominator
WinRateWithoutOne(strong_score, weak_score) ==
    RSub(One, RDiv(One, Pow10Gap(strong_score, weak_score)))

\* a formula that returns the weak side's win-rate
WeakWinRate(strong_score, weak_score) ==
    RDiv(One, RAdd(One, Pow10Gap(strong_score, weak_score)))

\* weak_winrate = 1 / (1 + 10 ** ((strong - weak) / 400)); 1 - weak_winrate
StrongWinRate(strong_score, weak_score) ==
    LET weak_winrate == RDiv(One, RAdd(One, Pow10Gap(strong_score, weak_score)))
    IN  RSub(One, weak_winrate)

\* BERTRouter: softmax of the logits, then 1 - (sum of the last two)
BertWinRate(logits) ==
    LET mx == MaxSeq(logits)
        exp_scores == [i \in 1..Len(logits) |-> <<1, Pow(2, mx - logits[i])>>]
        total == RAdd(RAdd(exp_scores[1], exp_scores[2]), exp_scores[3])
        softmax_scores == [i \in 1..Len(logits) |-> RDiv(exp_scores[i], total)]
        binary_prob == RAdd(softmax_scores[Len(logits) - 1],
                            softmax_scores[Len(logits)])
    IN  RSub(One, binary_prob)

\* CausalLLMRouter: 1 - output["binary_prob"]
CausalWinRate(binary_prob) == RSub(One, binary_prob)

(***************************************************************************)
(* The environment: files, callers, prompts, the embedding provider.       *)
(***************************************************************************)
Battle(a, b, w) == [model_a |-> a, model_b |-> b, winner |-> w]

\* the files that exist; any other path raises FileNotFoundError
Files ==
    [battles_json |->
        <<Battle("gpt4", "llama", "model_a"), Battle("gpt4", "llama", "model_a"),
          Battle("llama", "gpt4", "tie")>>,
     battles_jsonl |->
        <<Battle("gpt4", "llama", "model_b"), Battle("llama", "gpt4", "tie"),
          Battle("gpt4", "llama", "model_a")>>,
     arena_emb_npy |-> << <<1, 0>>, <<0, 2>>, <<0 - 3, 0>> >>,
     system_txt |-> "system", classifier_txt |-> "classifier"]

DfPaths == {"battles_json", "battles_jsonl", "nofile_json"}
EmbPaths == {"arena_emb_npy", "nofile_npy"}
SystemPaths == {"system_txt", "nofile_txt"}
ClassifierPaths == {"classifier_txt", "nofile_txt"}
ModelPairs == {<<"gpt4", "llama">>, <<"llama", "gpt4">>, <<"gpt4", "mixtral">>}
TierCounts == {1, 2}

Callers == {"t1", "t2"}
Prompts == {"p1", "p2"}
Thresholds == {Zero, Half, One}
\* what an opaque model or the random generator may return
Probabilities == {Zero, Half, One}
LogitVectors == {<<0, 0, 0>>, <<2, 0, 1>>, <<0, 3, 0>>}
\* the embedding the provider returns for a prompt, when it answers
Embedding == [p1 |-> <<2, 0>>, p2 |-> <<0, 1>>]

VARIABLES
    NO_PARALLEL,    \* class -> the class's own NO_PARALLEL attribute
    router,         \* the router instance (cls = "none" before construction)
    built,          \* the instance as construction left it
    ctor,           \* what the last construction attempt ran
    calls,          \* caller -> the frame of its call
    n_calls,        \* calls started
    n_routes,       \* route calls started
    n_estimates,    \* estimator invocations made by route calls
    embed_failed,   \* the embedding provider has failed some call
    sims,           \* get_weightings on its own: the argument
    weights,        \* get_weightings on its own: the result
    applied         \* get_weightings on its own: whether it has run

vars ==
    <<NO_PARALLEL, router, built, ctor, calls, n_calls, n_routes, n_estimates,
      embed_failed, sims, weights, applied>>
routerVars ==
    <<NO_PARALLEL, router, built, ctor, calls, n_calls, n_routes, n_estimates,
      embed_failed>>
weightVars == <<sims, weights, applied>>

NoRouter ==
    [cls |-> "none", strong_model |-> "", weak_model |-> "", arena_df |-> <<>>,
     arena_conv_embedding |-> <<>>, model2tier |-> <<>>, embedding_model |-> ""]

NoLog ==
    [cls |-> "none", status |-> "none", df_reads |-> 0, emb_reads |-> 0,
     fits |-> 0, tiers |-> 0, relabels |-> 0]

IdleFrame ==
    [pc |-> "idle", mode |-> "", prompt |-> "", threshold |-> Zero,
     prompt_emb |-> <<>>, similarities |-> <<>>, weightings |-> <<>>,
     res |-> <<>>, win_rate |-> <<>>, side |-> "", error |-> "",
     n_est |-> 0, n_embed |-> 0, n_fit |-> 0, overlapped |-> FALSE,
     after_failure |-> FALSE]

InFlight(f) == f.pc \notin {"idle", "done"}

(***************************************************************************)
(* Construction.                                                           *)
(***************************************************************************)
\* a constructor that fits the ratings before it loads the embeddings
SWInitEager(strong_model, weak_model, arena_df_path, arena_embedding_path, num_tiers) ==
    LET log == [NoLog EXCEPT !.cls = "SWRankingRouter"]
    IN  IF arena_df_path \notin DOMAIN Files
        THEN [self |-> NoRouter,
              log |-> [log EXCEPT !.status = "FileNotFoundError", !.df_reads = 1]]
        ELSE
        LET df == Files[arena_df_path]
            model_ratings == compute_elo_mle_with_tie(df, UnitWeights(df))
            model2tier == compute_tiers(df, model_ratings, num_tiers)
        IN  IF arena_embedding_path \notin DOMAIN Files
            THEN [self |-> NoRouter,
                  log |-> [log EXCEPT !.status = "FileNotFoundError",
                                      !.df_reads = 1, !.emb_reads = 1,
                                      !.fits = 1, !.tiers = 1]]
            ELSE [self |->
                    [cls |-> "SWRankingRouter", strong_model |-> strong_model,
                     weak_model |-> weak_model,
                     arena_df |-> Relabel(df, model2tier),
                     arena_conv_embedding |-> Files[arena_embedding_path],
                     model2tier |-> model2tier,
                     embedding_model |-> "text-embedding-3-small"],
                  log |-> [log EXCEPT !.status = "ok", !.df_reads = 1,
                                      !.emb_reads = 1, !.fits = 1, !.tiers = 1,
                                      !.relabels = 1]]

\* SWRankingRouter.__init__: the instance (NoRouter when it raises) and what ran
SWInit(strong_model, weak_model, arena_df_path, arena_embedding_path, num_tiers) ==
    LET log == [NoLog EXCEPT !.cls = "SWRankingRouter"]
    IN  IF arena_df_path \notin DOMAIN Files
        THEN [self |-> NoRouter,
              log |-> [log EXCEPT !.status = "FileNotFoundError", !.df_reads = 1]]
        ELSE IF arena_embedding_path \notin DOMAIN Files
        THEN [self |-> NoRouter,
              log |-> [log EXCEPT !.status = "FileNotFoundError",
                                  !.df_reads = 1, !.emb_reads = 1]]
        ELSE
        LET df == Files[arena_df_path]
            model_ratings == compute_elo_mle_with_tie(df, UnitWeights(df))
            model2tier == compute_tiers(df, model_ratings, num_tiers)
        IN  [self |->
                [cls |-> "SWRankingRouter", strong_model |-> strong_model,
                 weak_model |-> weak_model,
                 arena_df |-> Relabel(df, model2tier),
                 arena_conv_embedding |-> Files[arena_embedding_path],
                 model2tier |-> model2tier,
                 embedding_model |-> "text-embedding-3-small"],
             log |-> [log EXCEPT !.status = "ok", !.df_reads = 1, !.emb_reads = 1,
                                 !.fits = 1, !.tiers = 1, !.relabels = 1]]

\* CausalLLMRouter.__init__: open(system_message), open(classifier_message)
CausalInit(system_message, classifier_message) ==
    LET log == [NoLog EXCEPT !.cls = "CausalLLMRouter"]
    IN  IF system_message \notin DOMAIN Files \/ classifier_message \notin DOMAIN Files
        THEN [self |-> NoRouter, log |-> [log EXCEPT !.status = "FileNotFoundError"]]
        ELSE [self |-> [NoRouter EXCEPT !.cls = "CausalLLMRouter"],
              log |-> [log EXCEPT !.status = "ok"]]

Constructed(made) ==
    /\ router.cls = "none"
    /\ router' = made.self
    /\ built' = made.self
    /\ ctor' = made.log
    /\ UNCHANGED <<NO_PARALLEL, calls, n_calls, n_routes, n_estimates,
                   embed_failed, weightVars>>

ConstructSW ==
    \E pair \in ModelPairs, dfp \in DfPaths, embp \in EmbPaths, nt \in TierCounts :
        Constructed(SWInit(pair[1], pair[2], dfp, embp, nt))

ConstructCausal ==
    \E sp \in SystemPaths, cp \in ClassifierPaths : Constructed(CausalInit(sp, cp))

\* BERTRouter, MatrixFactorizationRouter, RandomRouter: an opaque handle or nothing
ConstructOther ==
    \E name \in {"bert", "matrix_factorization", "random"} :
        Constructed([self |-> [NoRouter EXCEPT !.cls = ROUTER_CLS[name]],
                     log |-> [NoLog EXCEPT !.cls = ROUTER_CLS[name], !.status = "ok"]])

(***************************************************************************)
(* Calls: Router.route and calculate_strong_win_rate.                      *)
(***************************************************************************)
\* a caller starts route(prompt, threshold) or calculate_strong_win_rate(prompt)
Call(c, mode, p, t) ==
    /\ router.cls # "none"
    /\ calls[c].pc = "idle"
    /\ n_calls < MaxCalls
    /\ LET busy == \E d \in Callers : InFlight(calls[d])
       IN  calls' =
             [d \in Callers |->
                IF d = c
                THEN [IdleFrame EXCEPT !.pc = "call", !.mode = mode, !.prompt = p,
                                       !.threshold = t, !.overlapped = busy,
                                       !.after_failure = embed_failed]
                ELSE IF InFlight(calls[d])
                THEN [calls[d] EXCEPT !.overlapped = TRUE]
                ELSE calls[d]]
    /\ n_calls' = n_calls + 1
    /\ n_routes' = IF mode = "route" THEN n_routes + 1 ELSE n_routes
    /\ UNCHANGED <<NO_PARALLEL, router, built, ctor, n_estimates, embed_failed,
                   weightVars>>

Route(c) == \E p \in Prompts, t \in Thresholds : Call(c, "route", p, t)
Estimate(c) == \E p \in Prompts : Call(c, "estimate", p, Zero)

\* a route that evaluates the estimator twice
InvokeTwice(f) == [f EXCEPT !.n_est = @ + 2]

\* the frame enters self.calculate_strong_win_rate(prompt)
Invoke(f) == [f EXCEPT !.n_est = @ + 1]

\* the estimator returns w: to the comparison of route, or to the caller
Returned(f, w) ==
    [f EXCEPT !.win_rate = w, !.pc = IF f.mode = "route" THEN "compare" ELSE "done"]

\* the estimator raises: the exception leaves route as well
Raised(f, err) == [f EXCEPT !.error = err, !.pc = "done"]

\* the step of one frame; the instance and the other frames stay as they are,
\* and an estimator invocation made for a route call is counted
Step(c, f) ==
    /\ calls' = [calls EXCEPT ![c] = f]
    /\ n_estimates' =
         IF calls[c].mode = "route"
         THEN n_estimates + (f.n_est - calls[c].n_est) ELSE n_estimates
    /\ UNCHANGED <<NO_PARALLEL, router, built, ctor, n_calls, n_routes, weightVars>>

\* RandomRouter: random.uniform(0, 1)
RandomEstimate(c) ==
    /\ calls[c].pc = "call" /\ router.cls = "RandomRouter"
    /\ \E w \in Probabilities : Step(c, Returned(Invoke(calls[c]), w))
    /\ UNCHANGED embed_failed

\* CausalLLMRouter: the classifier answers with binary_prob, or fails
CausalEstimate(c) ==
    /\ calls[c].pc = "call" /\ router.cls = "CausalLLMRouter"
    /\ \/ \E bp \in Probabilities :
             Step(c, Returned(Invoke(calls[c]), CausalWinRate(bp)))
       \/ Step(c, Raised(Invoke(calls[c]), "InferenceError"))
    /\ UNCHANGED embed_failed

\* BERTRouter: the model answers with logits, or fails
BertEstimate(c) ==
    /\ calls[c].pc = "call" /\ router.cls = "BERTRouter"
    /\ \/ \E logits \in LogitVectors :
             Step(c, Returned(Invoke(calls[c]), BertWinRate(logits)))
       \/ Step(c, Raised(Invoke(calls[c]), "InferenceError"))
    /\ UNCHANGED embed_failed

\* MatrixFactorizationRouter: self.model.pred_win_rate(...), or fails
MFEstimate(c) ==
    /\ calls[c].pc = "call" /\ router.cls = "MatrixFactorizationRouter"
    /\ \/ \E w \in Probabilities : Step(c, Returned(Invoke(calls[c]), w))
       \/ Step(c, Raised(Invoke(calls[c]), "InferenceError"))
    /\ UNCHANGED embed_failed

\* the embedding kept in one place that every frame reads
StoreEmbeddingShared(frames, c, emb) ==
    [d \in Callers |->
        IF d = c THEN [frames[d] EXCEPT !.prompt_emb = emb, !.pc = "similarity"]
        ELSE IF frames[d].prompt_emb # <<>> THEN [frames[d] EXCEPT !.prompt_emb = emb]
        ELSE frames[d]]

\* prompt_emb = ....data[0].embedding: a local of the call
StoreEmbedding(frames, c, emb) ==
    [frames EXCEPT ![c] = [@ EXCEPT !.prompt_emb = emb, !.pc = "similarity"]]

\* a provider failure that is retried once before it is raised
EmbedFailureRetried(f) == Raised([f EXCEPT !.n_embed = @ + 2], "APIError")

\* the provider raises: the exception leaves calculate_strong_win_rate
EmbedFailure(f) == Raised([f EXCEPT !.n_embed = @ + 1], "APIError")

\* SWRankingRouter: OPENAI_CLIENT.embeddings.create(input=[prompt], ...)
SWEmbed(c) ==
    /\ calls[c].pc = "call" /\ router.cls = "SWRankingRouter"
    /\ \/ /\ calls' = StoreEmbedding(
                        [calls EXCEPT ![c] = [Invoke(@) EXCEPT !.n_embed = @ + 1]],
                        c, Embedding[calls[c].prompt])
          /\ UNCHANGED embed_failed
       \/ /\ calls' = [calls EXCEPT ![c] = EmbedFailure(Invoke(@))]
          /\ embed_failed' = TRUE
    /\ n_estimates' =
         IF calls[c].mode = "route"
         THEN n_estimates + (calls'[c].n_est - calls[c].n_est) ELSE n_estimates
    /\ UNCHANGED <<NO_PARALLEL, router, built, ctor, n_calls, n_routes, weightVars>>

\* similarities = np.dot(...) / (np.linalg.norm(...) * np.linalg.norm(...))
SWSimilarity(c) ==
    /\ calls[c].pc = "similarity"
    /\ Step(c, [calls[c] EXCEPT
                  !.similarities =
                      Similarities(router.arena_conv_embedding, calls[c].prompt_emb),
                  !.pc = "weighting"])
    /\ UNCHANGED embed_failed

\* weightings = self.get_weightings(similarities)
SWWeigh(c) ==
    /\ calls[c].pc = "weighting"
    /\ Step(c, [calls[c] EXCEPT !.weightings = get_weightings(calls[c].similarities),
                                !.pc = "fit"])
    /\ UNCHANGED embed_failed

\* a refit that keeps the weights as a column of the shared arena_df
RefitKeepsWeights(self, weightings) ==
    [self EXCEPT !.arena_df =
        [i \in 1..Len(self.arena_df) |->
            [model_a |-> self.arena_df[i].model_a,
             model_b |-> self.arena_df[i].model_b,
             winner |-> self.arena_df[i].winner,
             weight |-> weightings[i]]]]

\* the instance after line 171: the call assigns no attribute of self
SelfAfterRefit(self, weightings) == self

\* res = sw_utils.compute_elo_mle_with_tie(self.arena_df, sample_weight=weightings)
SWRefit(c) ==
    /\ calls[c].pc = "fit"
    /\ calls' = [calls EXCEPT ![c] =
                   [@ EXCEPT !.res = compute_elo_mle_with_tie(router.arena_df,
                                                              calls[c].weightings),
                             !.n_fit = @ + 1, !.pc = "rating"]]
    /\ router' = SelfAfterRefit(router, calls[c].weightings)
    /\ UNCHANGED <<NO_PARALLEL, built, ctor, n_calls, n_routes, n_estimates,
                   embed_failed, weightVars>>

\* the ratings of the two tiers, the win-rate formula, return strong_winrate
SWRating(c) ==
    /\ calls[c].pc = "rating"
    /\ LET f == calls[c]
       IN  IF \/ router.weak_model \notin DOMAIN router.model2tier
              \/ router.strong_model \notin DOMAIN router.model2tier
           THEN Step(c, Raised(f, "KeyError"))
           ELSE Step(c, Returned(f,
                    StrongWinRate(f.res[router.model2tier[router.strong_model]],
                                  f.res[router.model2tier[router.weak_model]])))
    /\ UNCHANGED embed_failed

\* Router.route: the comparison with the threshold
Compare(c) ==
    /\ calls[c].pc = "compare"
    /\ Step(c, [calls[c] EXCEPT
                  !.side = RouteDecision(calls[c].win_rate, calls[c].threshold),
                  !.pc = "done"])
    /\ UNCHANGED embed_failed

\* the caller takes the result; its frame is free again
Return(c) ==
    /\ calls[c].pc = "done"
    /\ calls' = [calls EXCEPT ![c] = IdleFrame]
    /\ UNCHANGED <<NO_PARALLEL, router, built, ctor, n_calls, n_routes,
                   n_estimates, embed_failed, weightVars>>

Init ==
    /\ NO_PARALLEL = ModuleLoaded
    /\ router = NoRouter
    /\ built = NoRouter
    /\ ctor = NoLog
    /\ calls = [c \in Callers |-> IdleFrame]
    /\ n_calls = 0
    /\ n_routes = 0
    /\ n_estimates = 0
    /\ embed_failed = FALSE
    /\ sims = <<>>
    /\ weights = <<>>
    /\ applied = FALSE

Next ==
    \/ ConstructSW
    \/ ConstructCausal
    \/ ConstructOther
    \/ \E c \in Callers :
        \/ Route(c)
        \/ Estimate(c)
        \/ RandomEstimate(c)
        \/ CausalEstimate(c)
        \/ BertEstimate(c)
        \/ MFEstimate(c)
        \/ SWEmbed(c)
        \/ SWSimilarity(c)
        \/ SWWeigh(c)
        \/ SWRefit(c)
        \/ SWRating(c)
        \/ Compare(c)
        \/ Return(c)

Spec == Init /\ [][Next]_vars

(***************************************************************************)
(* get_weightings on its own, over every short vector of similarities in   *)
(* halves from -1 to 1.                                                    *)
(***************************************************************************)
SimVectors == UNION {[1..n -> (0 - 2)..2] : n \in 1..MaxSims}

InitW ==
    /\ NO_PARALLEL = ModuleLoaded
    /\ router = NoRouter
    /\ built = NoRouter
    /\ ctor = NoLog
    /\ calls = [c \in Callers |-> IdleFrame]
    /\ n_calls = 0
    /\ n_routes = 0
    /\ n_estimates = 0
    /\ embed_failed = FALSE
    /\ sims \in SimVectors
    /\ weights = <<>>
    /\ applied = FALSE

ApplyWeightings ==
    /\ ~applied
    /\ weights' = get_weightings(sims)
    /\ applied' = TRUE
    /\ UNCHANGED <<routerVars, sims>>

NextW == ApplyWeightings

SpecW == InitW /\ [][NextW]_vars

(***************************************************************************)
(* Properties.                                                             *)
(***************************************************************************)
IsSW == router.cls = "SWRankingRouter"
Finished(f) == f.pc = "done"
Succeeded(f) == f.pc \in {"compare", "done"} /\ f.error = ""

\* calculate_strong_win_rate(prompt) run alone on the instance self
SoloWinRate(self, prompt) ==
    LET similarities == Similarities(self.arena_conv_embedding, Embedding[prompt])
        res == compute_elo_mle_with_tie(self.arena_df, get_weightings(similarities))
    IN  StrongWinRate(res[self.model2tier[self.strong_model]],
                      res[self.model2tier[self.weak_model]])

\* the instances SWRankingRouter.__init__ can build whose two models are rated
RoutableInstances ==
    {inst \in {SWInit(pair[1], pair[2], dfp, embp, nt).self :
                  pair \in ModelPairs, dfp \in DfPaths, embp \in EmbPaths,
                  nt \in TierCounts} :
        /\ inst.cls = "SWRankingRouter"
        /\ {inst.strong_model, inst.weak_model} \subseteq DOMAIN inst.model2tier}

\* <<instance, prompt, win-rate>> for every such instance and every prompt
SoloResults ==
    {<<inst, p, SoloWinRate(inst, p)>> : inst \in RoutableInstances, p \in Prompts}

\* C1: a route call that got a win-rate w returns the strong side iff
\* w >= threshold and the weak side iff w < threshold, for every variant.
C1_RouteStrongIffGeq ==
    \A c \in Callers :
        LET f == calls[c]
        IN  (Finished(f) /\ f.mode = "route" /\ f.error = "") =>
                /\ f.side = STRONG <=>
                     f.win_rate[1] * f.threshold[2] >= f.threshold[1] * f.win_rate[2]
                /\ f.side = WEAK <=>
                     f.win_rate[1] * f.threshold[2] < f.threshold[1] * f.win_rate[2]

\* the boundary: the similarity-weighted estimator returned exactly the threshold
C1_Witness ==
    \E c \in Callers :
        /\ IsSW /\ Finished(calls[c]) /\ calls[c].mode = "route"
        /\ calls[c].win_rate = calls[c].threshold
        /\ calls[c].side = STRONG

\* C2: whatever calls have run or failed, the SWRankingRouter instance is as
\* construction left it, its arena_df names tiers, and the relabeling ran once.
C2_SharedStateUnchanged ==
    IsSW =>
        /\ router = built
        /\ ctor.relabels = 1
        /\ Participants(router.arena_df) =
             {router.model2tier[m] : m \in DOMAIN router.model2tier}

\* one call failed at the provider and another one refitted and returned
C2_Witness ==
    /\ IsSW
    /\ \E c, d \in Callers :
        /\ Finished(calls[c]) /\ calls[c].error = "APIError"
        /\ Finished(calls[d]) /\ calls[d].error = "" /\ calls[d].n_fit = 1

\* C3: a call of the similarity-weighted estimator returns what it would return
\* alone on the instance as constructed, whatever other call is in flight.
C3_ConcurrentCallsIndependent ==
    \A c \in Callers :
        (IsSW /\ Succeeded(calls[c])) =>
            <<built, calls[c].prompt, calls[c].win_rate>> \in SoloResults

\* two calls with different prompts overlapped and both returned
C3_Witness ==
    /\ IsSW
    /\ \E c, d \in Callers :
        /\ calls[c].prompt # calls[d].prompt
        /\ calls[c].overlapped /\ calls[d].overlapped
        /\ Finished(calls[c]) /\ calls[c].error = ""
        /\ Finished(calls[d]) /\ calls[d].error = ""
        /\ calls[c].win_rate # calls[d].win_rate

\* marking any one class leaves the flag of every other class as it was
MarkingIsLocal ==
    \A cls \in Variants :
        \A other \in Classes \ {cls} :
            NoParallelOf(no_parallel(cls, ClassBodies), other)
                = NoParallelOf(ClassBodies, other)

\* C4 as the code has it: random, causal_llm, bert and matrix_factorization
\* are marked NO_PARALLEL, sw_ranking and the base Router are not; marking one
\* class leaves every other class's flag alone; no operation changes a flag.
C4_FlagsAsDecorated ==
    /\ \A name \in {"random", "causal_llm", "bert", "matrix_factorization"} :
          NoParallelOf(NO_PARALLEL, ROUTER_CLS[name]) = "True"
    /\ NoParallelOf(NO_PARALLEL, ROUTER_CLS["sw_ranking"]) = "False"
    /\ NoParallelOf(NO_PARALLEL, Base) = "False"
    /\ MarkingIsLocal

\* calls have run on a router marked NO_PARALLEL
C4_Witness ==
    /\ router.cls = "MatrixFactorizationRouter"
    /\ NoParallelOf(NO_PARALLEL, router.cls) = "True"
    /\ \E c \in Callers : Finished(calls[c])

\* C4 as stated: only the random baseline is marked not parallel-safe;
\* sw_ranking, causal_llm, bert and matrix_factorization are parallel-safe.
C4_AsStated ==
    /\ NoParallelOf(NO_PARALLEL, ROUTER_CLS["random"]) = "True"
    /\ \A name \in {"sw_ranking", "causal_llm", "bert", "matrix_factorization"} :
          NoParallelOf(NO_PARALLEL, ROUTER_CLS[name]) = "False"
    /\ NoParallelOf(NO_PARALLEL, Base) = "False"

\* C5: every route call invokes the estimator exactly once, whether it returns
\* or raises: the invocations made by route calls number the route calls that
\* have reached the estimator, with no decision reused.
C5_EstimatorOncePerRoute ==
    /\ n_estimates =
         n_routes - Cardinality({c \in Callers :
                        calls[c].mode = "route" /\ calls[c].pc = "call"})
    /\ \A c \in Callers :
          (calls[c].mode = "route" /\ calls[c].pc \notin {"idle", "call"}) =>
              calls[c].n_est = 1

\* the same prompt and threshold routed twice, the estimator invoked twice
C5_Witness ==
    /\ n_routes = 2 /\ n_estimates = 2
    /\ \E c, d \in Callers :
        /\ c # d
        /\ Finished(calls[c]) /\ Finished(calls[d])
        /\ calls[c].mode = "route" /\ calls[d].mode = "route"
        /\ calls[c].prompt = calls[d].prompt
        /\ calls[c].threshold = calls[d].threshold
        /\ calls[c].side # "" /\ calls[d].side # ""

\* C6: a call whose embedding request fails asked the provider once, ran no
\* refit and returned neither a win-rate nor a side; the instance is untouched,
\* and a call started after the failure returns what it would return alone.
C6_EmbeddingFailureIsLocal ==
    /\ \A c \in Callers :
          calls[c].error = "APIError" =>
              /\ Finished(calls[c])
              /\ calls[c].n_embed = 1 /\ calls[c].n_fit = 0
              /\ calls[c].res = <<>>
              /\ calls[c].win_rate = <<>> /\ calls[c].side = ""
    /\ embed_failed => router = built
    /\ \A c \in Callers :
          (IsSW /\ calls[c].after_failure /\ Finished(calls[c])
                /\ calls[c].error = "") =>
              /\ calls[c].n_embed = 1 /\ calls[c].n_fit = 1
              /\ <<built, calls[c].prompt, calls[c].win_rate>> \in SoloResults

\* a failed call, then a route on the same instance that returned a side
C6_Witness ==
    \E c, d \in Callers :
        /\ IsSW
        /\ Finished(calls[c]) /\ calls[c].error = "APIError"
        /\ Finished(calls[d]) /\ calls[d].after_failure
        /\ calls[d].error = "" /\ calls[d].side # ""

RatingGrid == {<<n, d>> : n \in 1..4, d \in 1..4}

\* the win-rate formula on every pair of ratings of the grid
FormulaInUnit ==
    \A a \in RatingGrid, b \in RatingGrid : InUnit(StrongWinRate(a, b))

C8_MissingFileAbortsConstruction ==
    (ctor.cls = "SWRankingRouter" /\ ctor.status = "FileNotFoundError") =>
        /\ router = NoRouter
        /\ n_calls = 0
        /\ ctor.df_reads <= 1 /\ ctor.emb_reads <= 1
        /\ ctor.fits = 0 /\ ctor.tiers = 0 /\ ctor.relabels = 0

\* the battles were read and the embedding file was missing
C8_Witness ==
    /\ ctor.cls = "SWRankingRouter" /\ ctor.status = "FileNotFoundError"
    /\ ctor.df_reads = 1 /\ ctor.emb_reads = 1

\* a weight is a positive number no larger than another
WLeq(a, b) == a # NaN /\ b # NaN /\ a <= b

\* C9: the weights of get_weightings are strictly positive and monotonic in
\* the similarity: s1 <= s2 implies weight(s1) <= weight(s2).
C9_WeightsPositiveMonotonic ==
    applied =>
        \A i, j \in 1..Len(sims) :
            /\ weights[i] # NaN /\ weights[i] > 0
            /\ sims[i] <= sims[j] => WLeq(weights[i], weights[j])

\* C10: the win-rate of the similarity-weighted estimator stands to one half
\* as the strong tier's refit rating stands to the weak tier's; with both
\* models in one tier it is one half, and route is strong iff threshold <= 1/2.
C10_WinRateOrderedAsRatings ==
    \A c \in Callers :
        LET f == calls[c]
        IN  (IsSW /\ Succeeded(f)) =>
              LET strong_score == f.res[router.model2tier[router.strong_model]]
                  weak_score == f.res[router.model2tier[router.weak_model]]
              IN  /\ RLess(Half, f.win_rate) <=> RLess(weak_score, strong_score)
                  /\ REq(f.win_rate, Half) <=> REq(strong_score, weak_score)
                  /\ RLess(f.win_rate, Half) <=> RLess(strong_score, weak_score)
                  /\ router.model2tier[router.strong_model]
                        = router.model2tier[router.weak_model] =>
                       /\ f.win_rate = Half
                       /\ (Finished(f) /\ f.mode = "route") =>
                             (f.side = STRONG <=> RGeq(Half, f.threshold))

\* one tier for both models: the estimate is one half and route chose weak
C10_Witness ==
    \E c \in Callers :
        /\ IsSW /\ Finished(calls[c]) /\ calls[c].error = ""
        /\ router.model2tier[router.strong_model]
              = router.model2tier[router.weak_model]
        /\ calls[c].win_rate = Half
        /\ calls[c].threshold = One /\ calls[c].side = WEAK

=============================================================================
